---------------------------- MODULE Spec2Model ----------------------------
(***************************************************************************)
(* Backfill state store (internal/statestore/backfill.go): the Redis       *)
(* keyspace, the sorted set backfill_last_ack_time and the hash            *)
(* allBackfills, driven by clients that call the nine methods of           *)
(* redisBackend.  Every Redis command is one atomic step; a method that    *)
(* issues several commands is several steps, so calls interleave exactly   *)
(* at command boundaries.                                                  *)
(***************************************************************************)
EXTENDS Integers, Sequences, FiniteSets, TLC

VARIABLES
    keyspace,             \* Redis string keys: backfill id -> marshalled BackfillInternal
    backfillLastAckTime,  \* Redis sorted set: member (backfill id) -> score
    allBackfills,         \* Redis hash: field (backfill id) -> value (decimal text)
    clock,                \* time.Now().UnixNano()
    call,                 \* per client: the method it is in, its locals and its result
    poolActive,           \* connections currently checked out of rb.redisPool
    written,              \* history: per key, the last write Redis applied to it
    acked,                \* history: per id, creation stamp and last applied ZADD
    indexed               \* history: per id, the last Index/Deindex that returned nil

vars == <<keyspace, backfillLastAckTime, allBackfills, clock, call, poolActive,
          written, acked, indexed>>

---------------------------------------------------------------------------
(* Bounds of the model *)

NumProcs == 2
MaxTime == 6
MaxGen == 2
MaxTickets == 1
PendingReleaseTimeout == 7

Procs == 1..NumProcs
FirstProc == CHOOSE p \in Procs : \A q \in Procs : p <= q

---------------------------------------------------------------------------
(* Go values.  A nil pointer or nil slice is <<>>, a present one is <<v>>. *)

NilBackfill == <<>>
NilSlice == <<>>
Ptr(b) == <<b>>
Slice(s) == <<s>>
Elems(ticketIDs) == IF ticketIDs = NilSlice THEN <<>> ELSE ticketIDs[1]

\* A string that is not valid UTF-8: proto.Marshal rejects it in a proto3 string.
InvalidUTF8 == "\\xff"

\* (*pb.Backfill).GetId(): the empty string on a nil receiver.
GetId(backfill) == IF backfill = NilBackfill THEN "" ELSE backfill[1].Id

---------------------------------------------------------------------------
(* proto.Marshal / proto.Unmarshal of ipb.BackfillInternal                  *)
(*   message BackfillInternal { Backfill backfill = 1;                      *)
(*                              repeated string ticket_ids = 2; }           *)
(* The wire form is the sequence of fields present.  proto3 omits a scalar  *)
(* that holds its zero value, a nil message and an empty repeated field.    *)

StrField(tag, s) == [tag |-> tag, wire |-> "string", str |-> s, int |-> 0, msg |-> <<>>]
IntField(tag, n) == [tag |-> tag, wire |-> "varint", str |-> "", int |-> n, msg |-> <<>>]
MsgField(tag, m) == [tag |-> tag, wire |-> "message", str |-> "", int |-> 0, msg |-> m]

IdTag == "Backfill.id"
GenerationTag == "Backfill.generation"
BackfillTag == "BackfillInternal.backfill"
TicketIdsTag == "BackfillInternal.ticket_ids"

MarshalBackfill(b) ==
    (IF b.Id # "" THEN <<StrField(IdTag, b.Id)>> ELSE <<>>)
    \o (IF b.Generation # 0 THEN <<IntField(GenerationTag, b.Generation)>> ELSE <<>>)

\* A marshaller that writes field 1 and forgets the repeated field 2.
MarshalWithoutTickets(backfill, ticketIDs) ==
    IF backfill # NilBackfill
        THEN <<MsgField(BackfillTag, MarshalBackfill(backfill[1]))>>
        ELSE <<>>

Marshal(backfill, ticketIDs) ==
    (IF backfill # NilBackfill
        THEN <<MsgField(BackfillTag, MarshalBackfill(backfill[1]))>>
        ELSE <<>>)
    \o [i \in 1..Len(Elems(ticketIDs)) |-> StrField(TicketIdsTag, Elems(ticketIDs)[i])]

MarshalErr(backfill, ticketIDs) ==
    \/ backfill # NilBackfill /\ backfill[1].Id = InvalidUTF8
    \/ \E i \in 1..Len(Elems(ticketIDs)) : Elems(ticketIDs)[i] = InvalidUTF8

FieldsOf(value, tag) == SelectSeq(value, LAMBDA f : f.tag = tag)

UnmarshalBackfill(m) ==
    [Id |-> IF FieldsOf(m, IdTag) = <<>> THEN ""
            ELSE FieldsOf(m, IdTag)[Len(FieldsOf(m, IdTag))].str,
     Generation |-> IF FieldsOf(m, GenerationTag) = <<>> THEN 0
            ELSE FieldsOf(m, GenerationTag)[Len(FieldsOf(m, GenerationTag))].int]

\* bi.Backfill stays nil when field 1 is absent; bi.TicketIds stays nil when
\* no field 2 occurs.
Unmarshal(value) ==
    [Backfill |-> IF FieldsOf(value, BackfillTag) = <<>> THEN NilBackfill
                  ELSE Ptr(UnmarshalBackfill(
                         FieldsOf(value, BackfillTag)[Len(FieldsOf(value, BackfillTag))].msg)),
     TicketIds |-> IF FieldsOf(value, TicketIdsTag) = <<>> THEN NilSlice
                   ELSE Slice([i \in 1..Len(FieldsOf(value, TicketIdsTag)) |->
                                  FieldsOf(value, TicketIdsTag)[i].str])]

UnmarshalErr(value) ==
    \E i \in 1..Len(value) : value[i].wire \notin {"string", "varint", "message"}

---------------------------------------------------------------------------
(* redigo's argument formatting of an int64 (decimal text) and strconv.Atoi *)

Digits == <<"0", "1", "2", "3", "4", "5", "6", "7", "8", "9">>

RECURSIVE FormatNat(_)
FormatNat(n) ==
    IF n < 10 THEN <<Digits[n + 1]>>
    ELSE FormatNat(n \div 10) \o <<Digits[(n % 10) + 1]>>

FormatInt(n) == IF n < 0 THEN <<"-">> \o FormatNat(0 - n) ELSE FormatNat(n)

DigitVal(c) == (CHOOSE d \in 1..10 : Digits[d] = c) - 1
IsDigit(c) == \E d \in 1..10 : Digits[d] = c

RECURSIVE ParseNat(_)
ParseNat(s) ==
    IF Len(s) = 0 THEN 0
    ELSE 10 * ParseNat(SubSeq(s, 1, Len(s) - 1)) + DigitVal(s[Len(s)])

AtoiBody(s) == IF Len(s) > 0 /\ s[1] \in {"-", "+"} THEN Tail(s) ELSE s

AtoiErr(s) == Len(AtoiBody(s)) = 0 \/ \E i \in 1..Len(AtoiBody(s)) : ~IsDigit(AtoiBody(s)[i])

Atoi(s) ==
    IF Len(s) > 0 /\ s[1] = "-" THEN 0 - ParseNat(AtoiBody(s)) ELSE ParseNat(AtoiBody(s))

---------------------------------------------------------------------------
(* Redis data structures: a map is a function whose domain is its members. *)

EmptyMap == [x \in {} |-> 0]
MapPut(m, k, v) == [x \in (DOMAIN m) \cup {k} |-> IF x = k THEN v ELSE m[x]]
MapDel(m, k) == [x \in (DOMAIN m) \ {k} |-> m[x]]

\* ZRANGEBYSCORE key min max: the members with min <= score <= max, ordered
\* by score, then by member.
IdOrder == <<"", "a", "b">>
Rank(m) == CHOOSE i \in 1..Len(IdOrder) : IdOrder[i] = m
ZBefore(z, a, b) == z[a] < z[b] \/ (z[a] = z[b] /\ Rank(a) <= Rank(b))

RECURSIVE SortMembers(_, _)
SortMembers(z, S) ==
    IF S = {} THEN <<>>
    ELSE LET first == CHOOSE a \in S : \A b \in S : ZBefore(z, a, b)
         IN  <<first>> \o SortMembers(z, S \ {first})

\* A range that excludes its upper bound.
ZRangeBelowMax(z, min, max) ==
    SortMembers(z, {m \in DOMAIN z : min <= z[m] /\ z[m] < max})

ZRangeByScore(z, min, max) ==
    SortMembers(z, {m \in DOMAIN z : min <= z[m] /\ z[m] <= max})

---------------------------------------------------------------------------
(* Inputs *)

Ids == {"", "a", "b"}
TicketNames == {"t1", "t2"}

RECURSIVE SeqsUpTo(_, _)
SeqsUpTo(S, n) ==
    IF n = 0 THEN {<<>>}
    ELSE SeqsUpTo(S, n - 1) \cup
         {Append(s, x) : s \in {q \in SeqsUpTo(S, n - 1) : Len(q) = n - 1}, x \in S}

\* nil, the empty non-nil slice, and every list of at most MaxTickets tickets
TicketLists == {NilSlice} \cup {Slice(s) : s \in SeqsUpTo(TicketNames, MaxTickets)}

Backfill(id, generation) == Ptr([Id |-> id, Generation |-> generation])

---------------------------------------------------------------------------
(* Clients *)

Idle == [op |-> "", pc |-> "idle", backfill |-> NilBackfill, ticketIDs |-> NilSlice,
         id |-> "", currentTime |-> 0, res |-> 0, err |-> "", val |-> <<>>,
         lost |-> FALSE]

\* rb.redisPool.GetContext succeeded: the method runs with its arguments.
Enter(p, op, pc, backfill, ticketIDs, id) ==
    /\ call' = [call EXCEPT ![p] = [Idle EXCEPT !.op = op, !.pc = pc,
                    !.backfill = backfill, !.ticketIDs = ticketIDs, !.id = id]]
    /\ poolActive' = poolActive + 1

\* The method returns an error before it holds a connection, or after it has
\* acquired and released one without issuing a command.
Fail(p, op, id, err) ==
    /\ call' = [call EXCEPT ![p] = [Idle EXCEPT !.op = op, !.pc = "done",
                    !.id = id, !.err = err]]
    /\ UNCHANGED poolActive

\* defer handleConnectionClose(&redisConn): the connection goes back to the pool.
handleConnectionClose == poolActive' = poolActive - 1

\* A return that gives the connection back only when the method succeeds.
FinishLeaks(p, err, val, lost) ==
    /\ call' = [call EXCEPT ![p] =
                  IF err = "nil"
                  THEN [call[p] EXCEPT !.pc = "done", !.err = err, !.val = val,
                                      !.lost = lost]
                  ELSE [Idle EXCEPT !.op = call[p].op, !.pc = "done", !.id = call[p].id,
                                    !.err = err, !.lost = lost]]
    /\ IF err = "nil" THEN handleConnectionClose ELSE UNCHANGED poolActive

\* The method returns err and val; its deferred close runs.  An error leaves
\* the caller nothing but the error.
Finish(p, err, val, lost) ==
    /\ call' = [call EXCEPT ![p] =
                  IF err = "nil"
                  THEN [call[p] EXCEPT !.pc = "done", !.err = err, !.val = val,
                                      !.lost = lost]
                  ELSE [Idle EXCEPT !.op = call[p].op, !.pc = "done", !.id = call[p].id,
                                    !.err = err, !.lost = lost]]
    /\ handleConnectionClose

store == <<keyspace, backfillLastAckTime, allBackfills>>
history == <<written, acked, indexed>>

---------------------------------------------------------------------------
(* Redis commands, as functions of the structure they act on *)

\* A SETNX that sets the key whether or not it exists.
SETNXOverwrites(ks, key, value) == [reply |-> 1, ks |-> MapPut(ks, key, value)]

\* SETNX key value: sets the key only if it does not exist; replies 1 or 0.
SETNX(ks, key, value) ==
    IF key \in DOMAIN ks THEN [reply |-> 0, ks |-> ks]
    ELSE [reply |-> 1, ks |-> MapPut(ks, key, value)]

\* A SET that leaves an existing key alone.
SETIfAbsent(ks, key, value) == IF key \in DOMAIN ks THEN ks ELSE MapPut(ks, key, value)

\* SET key value
SET(ks, key, value) == MapPut(ks, key, value)

\* GET key: nil for a missing key, else the bulk string (possibly of length 0)
GET(ks, key) == IF key \in DOMAIN ks THEN Ptr(ks[key]) ELSE <<>>

\* A DEL that replies and removes nothing.
DELKeepsKey(ks, key) == [reply |-> IF key \in DOMAIN ks THEN 1 ELSE 0, ks |-> ks]

\* DEL key: replies the number of keys removed
DEL(ks, key) == [reply |-> IF key \in DOMAIN ks THEN 1 ELSE 0, ks |-> MapDel(ks, key)]

\* A ZADD that stores the member with score 0.
ZADDScoreZero(z, score, member) == MapPut(z, member, 0)

\* ZADD key score member
ZADD(z, score, member) == MapPut(z, member, score)

\* ZREM key member
ZREM(z, member) == MapDel(z, member)

\* HSET key field value, the value in redigo's text form
HSET(h, field, generation) == MapPut(h, field, FormatInt(generation))

\* HDEL key field
HDEL(h, field) == MapDel(h, field)

---------------------------------------------------------------------------
(* CreateBackfill *)

CreateBackfill(p, backfill, ticketIDs) ==
    /\ call[p].pc = "idle"
    /\ \/ Fail(p, "CreateBackfill", GetId(backfill), "Unavailable")
       \/ IF MarshalErr(backfill, ticketIDs)
             THEN Fail(p, "CreateBackfill", GetId(backfill), "Internal")
             ELSE Enter(p, "CreateBackfill", "SETNX", backfill, ticketIDs, GetId(backfill))
    /\ UNCHANGED <<store, clock, history>>

\* A SETNX step that refreshes the score of an id whose key exists.
CreateSetNXRefreshes(p) ==
    /\ call[p].op = "CreateBackfill" /\ call[p].pc = "SETNX"
    /\ call[p].id \in DOMAIN keyspace
    /\ backfillLastAckTime' = ZADD(backfillLastAckTime, clock, call[p].id)
    /\ Finish(p, "AlreadyExists", <<>>, FALSE)
    /\ UNCHANGED <<keyspace, allBackfills, clock, history>>

CreateSetNX(p) ==
    /\ call[p].op = "CreateBackfill" /\ call[p].pc = "SETNX"
    /\ LET c == call[p]
           r == SETNX(keyspace, c.id, Marshal(c.backfill, c.ticketIDs))
       IN  \/ /\ Finish(p, "Internal", <<>>, TRUE)
              /\ UNCHANGED <<keyspace, written>>
           \/ /\ r.reply = 0
              /\ Finish(p, "AlreadyExists", <<>>, FALSE)
              /\ UNCHANGED <<keyspace, written>>
           \/ /\ r.reply # 0
              /\ keyspace' = r.ks
              /\ written' = MapPut(written, c.id,
                     [op |-> "create", backfill |-> c.backfill,
                      ticketIDs |-> c.ticketIDs, overTickets |-> FALSE])
              /\ call' = [call EXCEPT ![p].pc = "now", ![p].res = r.reply]
              /\ UNCHANGED poolActive
    /\ UNCHANGED <<backfillLastAckTime, allBackfills, clock, acked, indexed>>

(* acknowledgeBackfill, called by CreateBackfill and AcknowledgeBackfill *)

acknowledgeNow(p) ==
    /\ call[p].pc = "now"
    /\ call' = [call EXCEPT ![p].currentTime = clock, ![p].pc = "ZADD"]
    /\ UNCHANGED <<store, clock, poolActive, history>>

acknowledgeZAdd(p) ==
    /\ call[p].pc = "ZADD"
    /\ LET c == call[p]
       IN  \/ /\ Finish(p, "Internal", <<>>, TRUE)
              /\ UNCHANGED <<backfillLastAckTime, acked>>
           \/ /\ backfillLastAckTime' = ZADD(backfillLastAckTime, c.currentTime, c.id)
              /\ acked' = MapPut(acked, c.id,
                     [op |-> c.op, t |-> c.currentTime,
                      created |-> IF c.op = "CreateBackfill" THEN c.currentTime
                                  ELSE IF c.id \in DOMAIN acked THEN acked[c.id].created
                                  ELSE 0 - 1])
              /\ Finish(p, "nil", <<>>, FALSE)
    /\ UNCHANGED <<keyspace, allBackfills, clock, written, indexed>>

---------------------------------------------------------------------------
(* GetBackfill *)

GetBackfill(p, id) ==
    /\ call[p].pc = "idle"
    /\ \/ Fail(p, "GetBackfill", id, "Unavailable")
       \/ Enter(p, "GetBackfill", "GET", NilBackfill, NilSlice, id)
    /\ UNCHANGED <<store, clock, history>>

\* redis.Bytes(reply): ErrNil for a nil reply, else the reply's own slice,
\* which is non-nil also when its length is 0.
GetResult(reply) ==
    IF reply = <<>> THEN [err |-> "NotFound", val |-> <<>>]
    ELSE LET value == Slice(reply[1])
         IN  IF value = NilSlice THEN [err |-> "NotFound", val |-> <<>>]
             ELSE IF UnmarshalErr(value[1]) THEN [err |-> "Internal", val |-> <<>>]
             ELSE [err |-> "nil", val |-> Unmarshal(value[1])]

\* A read that also acknowledges the id it reads.
GetGETTouches(p) ==
    /\ call[p].op = "GetBackfill" /\ call[p].pc = "GET"
    /\ LET r == GetResult(GET(keyspace, call[p].id))
       IN  Finish(p, r.err, r.val, FALSE)
    /\ backfillLastAckTime' = ZADD(backfillLastAckTime, clock, call[p].id)
    /\ UNCHANGED <<keyspace, allBackfills, clock, history>>

GetGET(p) ==
    /\ call[p].op = "GetBackfill" /\ call[p].pc = "GET"
    /\ \/ Finish(p, "Internal", <<>>, TRUE)
       \/ LET r == GetResult(GET(keyspace, call[p].id))
          IN  Finish(p, r.err, r.val, FALSE)
    /\ UNCHANGED <<store, clock, history>>

---------------------------------------------------------------------------
(* DeleteBackfill *)

Deleted == [op |-> "delete", backfill |-> NilBackfill, ticketIDs |-> NilSlice,
            overTickets |-> FALSE]

\* A delete that sends its DEL although it got no connection.
DeleteBackfillAnyway(p, id) ==
    /\ call[p].pc = "idle"
    /\ Fail(p, "DeleteBackfill", id, "Unavailable")
    /\ keyspace' = DEL(keyspace, id).ks
    /\ UNCHANGED <<backfillLastAckTime, allBackfills, clock, history>>

DeleteBackfill(p, id) ==
    /\ call[p].pc = "idle"
    /\ \/ Fail(p, "DeleteBackfill", id, "Unavailable")
       \/ Enter(p, "DeleteBackfill", "DEL", NilBackfill, NilSlice, id)
    /\ UNCHANGED <<store, clock, history>>

\* A DEL step that goes on to the ZREM when the DEL has failed.
DeleteDELContinues(p) ==
    /\ call[p].op = "DeleteBackfill" /\ call[p].pc = "DEL"
    /\ call' = [call EXCEPT ![p].pc = "ZREM", ![p].lost = TRUE]
    /\ UNCHANGED <<store, clock, poolActive, history>>

DeleteDEL(p) ==
    /\ call[p].op = "DeleteBackfill" /\ call[p].pc = "DEL"
    /\ \/ /\ Finish(p, "Internal", <<>>, TRUE)
          /\ UNCHANGED <<keyspace, written>>
       \/ /\ keyspace' = DEL(keyspace, call[p].id).ks
          /\ written' = MapPut(written, call[p].id, Deleted)
          /\ call' = [call EXCEPT ![p].pc = "ZREM",
                                  ![p].res = DEL(keyspace, call[p].id).reply]
          /\ UNCHANGED poolActive
    /\ UNCHANGED <<backfillLastAckTime, allBackfills, clock, acked, indexed>>

\* A delete that also drops the id from allBackfills.
deleteExpiredAndDeindex(p) ==
    /\ call[p].op = "DeleteBackfill" /\ call[p].pc = "ZREM"
    /\ backfillLastAckTime' = ZREM(backfillLastAckTime, call[p].id)
    /\ allBackfills' = HDEL(allBackfills, call[p].id)
    /\ acked' = MapDel(acked, call[p].id)
    /\ Finish(p, "nil", <<>>, FALSE)
    /\ UNCHANGED <<keyspace, clock, written, indexed>>

deleteExpiredBackfillID(p) ==
    /\ call[p].op = "DeleteBackfill" /\ call[p].pc = "ZREM"
    /\ \/ /\ Finish(p, "Internal", <<>>, TRUE)
          /\ UNCHANGED <<backfillLastAckTime, acked>>
       \/ /\ backfillLastAckTime' = ZREM(backfillLastAckTime, call[p].id)
          /\ acked' = MapDel(acked, call[p].id)
          /\ Finish(p, "nil", <<>>, FALSE)
    /\ UNCHANGED <<keyspace, allBackfills, clock, written, indexed>>

---------------------------------------------------------------------------
(* UpdateBackfill *)

UpdateBackfill(p, backfill, ticketIDs) ==
    /\ call[p].pc = "idle"
    /\ \/ Fail(p, "UpdateBackfill", GetId(backfill), "Unavailable")
       \/ IF MarshalErr(backfill, ticketIDs)
             THEN Fail(p, "UpdateBackfill", GetId(backfill), "Internal")
             ELSE Enter(p, "UpdateBackfill", "SET", backfill, ticketIDs, GetId(backfill))
    /\ UNCHANGED <<store, clock, history>>

\* A SET step that also acknowledges the id it writes.
UpdateSETAcknowledges(p) ==
    /\ call[p].op = "UpdateBackfill" /\ call[p].pc = "SET"
    /\ LET c == call[p]
       IN  /\ keyspace' = SET(keyspace, c.id, Marshal(c.backfill, c.ticketIDs))
           /\ backfillLastAckTime' = ZADD(backfillLastAckTime, clock, c.id)
           /\ written' = MapPut(written, c.id,
                  [op |-> "update", backfill |-> c.backfill, ticketIDs |-> c.ticketIDs,
                   overTickets |-> FALSE])
           /\ Finish(p, "nil", <<>>, FALSE)
    /\ UNCHANGED <<allBackfills, clock, acked, indexed>>

UpdateSET(p) ==
    /\ call[p].op = "UpdateBackfill" /\ call[p].pc = "SET"
    /\ LET c == call[p]
       IN  \/ /\ Finish(p, "Internal", <<>>, TRUE)
              /\ UNCHANGED <<keyspace, written>>
           \/ /\ keyspace' = SET(keyspace, c.id, Marshal(c.backfill, c.ticketIDs))
              /\ written' = MapPut(written, c.id,
                     [op |-> "update", backfill |-> c.backfill, ticketIDs |-> c.ticketIDs,
                      overTickets |-> /\ c.id \in DOMAIN written
                                     /\ Elems(written[c.id].ticketIDs) # <<>>])
              /\ Finish(p, "nil", <<>>, FALSE)
    /\ UNCHANGED <<backfillLastAckTime, allBackfills, clock, acked, indexed>>

---------------------------------------------------------------------------
(* AcknowledgeBackfill *)

\* An acknowledgement that first looks for the record.
AcknowledgeChecksExistence(p, id) ==
    /\ call[p].pc = "idle"
    /\ IF id \in DOMAIN keyspace
          THEN Enter(p, "AcknowledgeBackfill", "now", NilBackfill, NilSlice, id)
          ELSE Fail(p, "AcknowledgeBackfill", id, "NotFound")
    /\ UNCHANGED <<store, clock, history>>

AcknowledgeBackfill(p, id) ==
    /\ call[p].pc = "idle"
    /\ \/ Fail(p, "AcknowledgeBackfill", id, "Unavailable")
       \/ Enter(p, "AcknowledgeBackfill", "now", NilBackfill, NilSlice, id)
    /\ UNCHANGED <<store, clock, history>>

---------------------------------------------------------------------------
(* GetExpiredBackfillIDs *)

\* ttl := rb.cfg.GetDuration("pendingReleaseTimeout") / 5 * 4, in integers
TTL == (PendingReleaseTimeout \div 5) * 4

GetExpiredBackfillIDs(p) ==
    /\ call[p].pc = "idle"
    /\ \/ Fail(p, "GetExpiredBackfillIDs", "", "Unavailable")
       \/ /\ call' = [call EXCEPT ![p] = [Idle EXCEPT !.op = "GetExpiredBackfillIDs",
                           !.pc = "ZRANGEBYSCORE", !.currentTime = clock]]
          /\ poolActive' = poolActive + 1
    /\ UNCHANGED <<store, clock, history>>

\* A scan whose cutoff is one tick earlier.
ExpiredBackfillIdsLate(z, curTime) == ZRangeByScore(z, 0, curTime - TTL - 1)

\* endTimeInt := curTime.Add(-ttl).UnixNano(); startTimeInt := 0
ExpiredBackfillIds(z, curTime) == ZRangeByScore(z, 0, curTime - TTL)

ExpiredZRangeByScore(p) ==
    /\ call[p].op = "GetExpiredBackfillIDs" /\ call[p].pc = "ZRANGEBYSCORE"
    /\ \/ Finish(p, "Internal", <<>>, TRUE)
       \/ Finish(p, "nil", ExpiredBackfillIds(backfillLastAckTime, call[p].currentTime), FALSE)
    /\ UNCHANGED <<store, clock, history>>

---------------------------------------------------------------------------
(* IndexBackfill, DeindexBackfill: redisConn.Send only writes the command   *)
(* to the connection's output buffer and returns; the deferred Close of the *)
(* pooled connection flushes the buffer and reads the reply, and reports    *)
(* nothing of either to the method, which has already chosen its result.    *)

IndexBackfill(p, backfill) ==
    /\ call[p].pc = "idle"
    /\ \/ Fail(p, "IndexBackfill", GetId(backfill), "Unavailable")
       \/ IF backfill = NilBackfill
             THEN Fail(p, "IndexBackfill", "", "panic")
             ELSE \/ Fail(p, "IndexBackfill", backfill[1].Id, "Internal")
                  \/ Enter(p, "IndexBackfill", "close", backfill, NilSlice, backfill[1].Id)
    /\ UNCHANGED <<store, clock, history>>

IndexClose(p) ==
    /\ call[p].op = "IndexBackfill" /\ call[p].pc = "close"
    /\ LET c == call[p]
       IN  /\ \/ /\ allBackfills' = HSET(allBackfills, c.id, c.backfill[1].Generation)
                 /\ Finish(p, "nil", <<>>, FALSE)
              \/ /\ UNCHANGED allBackfills
                 /\ Finish(p, "nil", <<>>, TRUE)
           /\ indexed' = MapPut(indexed, c.id, <<c.backfill[1].Generation>>)
    /\ UNCHANGED <<keyspace, backfillLastAckTime, clock, written, acked>>

DeindexBackfill(p, id) ==
    /\ call[p].pc = "idle"
    /\ \/ Fail(p, "DeindexBackfill", id, "Unavailable")
       \/ Fail(p, "DeindexBackfill", id, "Internal")
       \/ Enter(p, "DeindexBackfill", "close", NilBackfill, NilSlice, id)
    /\ UNCHANGED <<store, clock, history>>

DeindexClose(p) ==
    /\ call[p].op = "DeindexBackfill" /\ call[p].pc = "close"
    /\ \/ /\ allBackfills' = HDEL(allBackfills, call[p].id)
          /\ Finish(p, "nil", <<>>, FALSE)
       \/ /\ UNCHANGED allBackfills
          /\ Finish(p, "nil", <<>>, TRUE)
    /\ indexed' = MapPut(indexed, call[p].id, <<>>)
    /\ UNCHANGED <<keyspace, backfillLastAckTime, clock, written, acked>>

---------------------------------------------------------------------------
(* GetIndexedBackfills *)

GetIndexedBackfills(p) ==
    /\ call[p].pc = "idle"
    /\ \/ Fail(p, "GetIndexedBackfills", "", "Unavailable")
       \/ Enter(p, "GetIndexedBackfills", "HGETALL", NilBackfill, NilSlice, "")
    /\ UNCHANGED <<store, clock, history>>

\* redis.StringMap, then strconv.Atoi of every value; one bad value fails the call.
IndexedResult(bfIndex) ==
    IF \E f \in DOMAIN bfIndex : AtoiErr(bfIndex[f])
    THEN [err |-> "Internal", val |-> <<>>]
    ELSE [err |-> "nil", val |-> [f \in DOMAIN bfIndex |-> Atoi(bfIndex[f])]]

IndexedHGetAll(p) ==
    /\ call[p].op = "GetIndexedBackfills" /\ call[p].pc = "HGETALL"
    /\ \/ Finish(p, "Internal", <<>>, TRUE)
       \/ LET r == IndexedResult(allBackfills)
          IN  Finish(p, r.err, r.val, FALSE)
    /\ UNCHANGED <<store, clock, history>>

---------------------------------------------------------------------------
(* The caller takes the result; time passes. *)

Return(p) ==
    /\ call[p].pc = "done"
    /\ call' = [call EXCEPT ![p] = Idle]
    /\ UNCHANGED <<store, clock, poolActive, history>>

Tick ==
    /\ clock < MaxTime
    /\ clock' = clock + 1
    /\ UNCHANGED <<store, call, poolActive, history>>

---------------------------------------------------------------------------
(* Specifications *)

Init ==
    /\ keyspace = EmptyMap
    /\ backfillLastAckTime = EmptyMap
    /\ allBackfills = EmptyMap
    /\ clock = 0
    /\ call = [p \in Procs |-> Idle]
    /\ poolActive = 0
    /\ written = EmptyMap
    /\ acked = EmptyMap
    /\ indexed = EmptyMap

\* Records: one client creating, reading, replacing and deleting records.
RecordBackfills == {NilBackfill, Backfill("a", 0), Backfill("a", 1)}
RecordTickets == TicketLists \cup {Slice(<<InvalidUTF8>>)}
RecordIds == {"", "a"}

NextRecord ==
    \E p \in {FirstProc} :
        \/ \E b \in RecordBackfills, t \in RecordTickets : CreateBackfill(p, b, t)
        \/ CreateSetNX(p)
        \/ acknowledgeNow(p)
        \/ acknowledgeZAdd(p)
        \/ \E id \in RecordIds : GetBackfill(p, id)
        \/ GetGET(p)
        \/ \E b \in RecordBackfills, t \in RecordTickets : UpdateBackfill(p, b, t)
        \/ UpdateSET(p)
        \/ \E id \in RecordIds : DeleteBackfill(p, id)
        \/ DeleteDEL(p)
        \/ deleteExpiredBackfillID(p)
        \/ Return(p)

SpecRecord == Init /\ [][NextRecord]_vars

\* Concurrent creation: every client calls CreateBackfill once.
CreateBackfills == {Backfill(id, g) : id \in {"a", "b"}, g \in 1..MaxGen}
CreateTickets == {NilSlice, Slice(<<"t1">>)}

NextCreate ==
    \E p \in Procs :
        \/ \E b \in CreateBackfills, t \in CreateTickets : CreateBackfill(p, b, t)
        \/ CreateSetNX(p)
        \/ acknowledgeNow(p)
        \/ acknowledgeZAdd(p)

SpecCreate == Init /\ [][NextCreate]_vars

\* Expiry: one client creating, acknowledging, deleting and scanning, as time passes.
ExpiryIds == {"a", "b"}
ExpiryBackfills == {Backfill(id, 1) : id \in ExpiryIds}

NextExpiry ==
    \/ Tick
    \/ \E p \in {FirstProc} :
        \/ \E b \in ExpiryBackfills : CreateBackfill(p, b, NilSlice)
        \/ CreateSetNX(p)
        \/ acknowledgeNow(p)
        \/ acknowledgeZAdd(p)
        \/ \E id \in ExpiryIds : AcknowledgeBackfill(p, id)
        \/ \E id \in ExpiryIds : DeleteBackfill(p, id)
        \/ DeleteDEL(p)
        \/ deleteExpiredBackfillID(p)
        \/ GetExpiredBackfillIDs(p)
        \/ ExpiredZRangeByScore(p)
        \/ Return(p)

SpecExpiry == Init /\ [][NextExpiry]_vars

\* Index: one client indexing, deindexing and listing, and creating, reading
\* and deleting the records of the same ids.
IndexIds == {"a", "b"}
IndexGenerations == {0 - 1, 0, 10 + MaxGen}
IndexBackfills ==
    {NilBackfill} \cup {Backfill(id, g) : id \in IndexIds, g \in IndexGenerations}
IndexRecords == {Backfill(id, 10 + MaxGen) : id \in IndexIds}

NextIndex ==
    \E p \in {FirstProc} :
        \/ \E b \in IndexRecords : CreateBackfill(p, b, NilSlice)
        \/ CreateSetNX(p)
        \/ acknowledgeNow(p)
        \/ acknowledgeZAdd(p)
        \/ \E id \in IndexIds : GetBackfill(p, id)
        \/ GetGET(p)
        \/ \E id \in IndexIds : DeleteBackfill(p, id)
        \/ DeleteDEL(p)
        \/ deleteExpiredBackfillID(p)
        \/ \E b \in IndexBackfills : IndexBackfill(p, b)
        \/ IndexClose(p)
        \/ \E id \in IndexIds : DeindexBackfill(p, id)
        \/ DeindexClose(p)
        \/ GetIndexedBackfills(p)
        \/ IndexedHGetAll(p)
        \/ Return(p)

SpecIndex == Init /\ [][NextIndex]_vars

\* Store: one client using every operation on one record, as time passes;
\* UpdateBackfill also writes a second key.
StoreIds == {"a"}
StoreRecords == {Backfill(id, g) : id \in StoreIds, g \in {1, 2}}
StoreUpdates == StoreRecords \cup {Backfill("b", 1)}

NextStore ==
    \/ Tick
    \/ \E p \in {FirstProc} :
        \/ \E b \in StoreRecords : CreateBackfill(p, b, NilSlice)
        \/ CreateSetNX(p)
        \/ acknowledgeNow(p)
        \/ acknowledgeZAdd(p)
        \/ \E id \in StoreIds : GetBackfill(p, id)
        \/ GetGET(p)
        \/ \E id \in StoreIds : DeleteBackfill(p, id)
        \/ DeleteDEL(p)
        \/ deleteExpiredBackfillID(p)
        \/ \E b \in StoreUpdates : UpdateBackfill(p, b, NilSlice)
        \/ UpdateSET(p)
        \/ \E id \in StoreIds : AcknowledgeBackfill(p, id)
        \/ GetExpiredBackfillIDs(p)
        \/ ExpiredZRangeByScore(p)
        \/ \E b \in StoreRecords : IndexBackfill(p, b)
        \/ IndexClose(p)
        \/ \E id \in StoreIds : DeindexBackfill(p, id)
        \/ DeindexClose(p)
        \/ GetIndexedBackfills(p)
        \/ IndexedHGetAll(p)
        \/ Return(p)

SpecStore == Init /\ [][NextStore]_vars

\* Race: every client calls CreateBackfill, AcknowledgeBackfill or
\* DeleteBackfill once on the same id, their commands interleaved, as time
\* passes.
RaceId == "a"

NextRace ==
    \/ Tick
    \/ \E p \in Procs :
        \/ CreateBackfill(p, Backfill(RaceId, 1), NilSlice)
        \/ CreateSetNX(p)
        \/ acknowledgeNow(p)
        \/ acknowledgeZAdd(p)
        \/ AcknowledgeBackfill(p, RaceId)
        \/ DeleteBackfill(p, RaceId)
        \/ DeleteDEL(p)
        \/ deleteExpiredBackfillID(p)

SpecRace == Init /\ [][NextRace]_vars

---------------------------------------------------------------------------
(* Properties of concurrent creation, under SpecCreate *)

Creators(id) == {p \in Procs : call[p].op = "CreateBackfill" /\ call[p].id = id}

\* The CreateBackfill of p has returned, it had a connection, and Redis
\* answered every command it issued.
CreateAnswered(p) ==
    /\ call[p].pc = "done"
    /\ call[p].err # "Unavailable"
    /\ ~call[p].lost

\* C1 (create uniqueness): when two or more CreateBackfill calls for one id
\* have run against the absent key and all have returned, exactly one of
\* them returned nil, every other returned AlreadyExists, and the stored
\* record is the one the successful call supplied.
C1_CreateUnique ==
    \A id \in Ids :
        (/\ Cardinality(Creators(id)) >= 2
         /\ \A p \in Creators(id) : CreateAnswered(p))
        => \E w \in Creators(id) :
              /\ call[w].err = "nil"
              /\ \A q \in Creators(id) \ {w} : call[q].err = "AlreadyExists"
              /\ id \in DOMAIN keyspace
              /\ Unmarshal(keyspace[id]).Backfill = call[w].backfill
              /\ Elems(Unmarshal(keyspace[id]).TicketIds) = Elems(call[w].ticketIDs)

\* C1 witness: two calls for one id with different records have both
\* returned, the loser's SETNX having run between the winner's SETNX and ZADD.
C1_Witness ==
    \E w, q \in Procs :
        /\ w # q
        /\ call[w].op = "CreateBackfill" /\ call[q].op = "CreateBackfill"
        /\ call[w].id = "a" /\ call[q].id = "a"
        /\ CreateAnswered(w) /\ CreateAnswered(q)
        /\ call[w].err = "nil"
        /\ call[q].err = "AlreadyExists"
        /\ call[w].ticketIDs = Slice(<<"t1">>)

---------------------------------------------------------------------------
(* Properties of the record operations, under SpecRecord *)

\* The call of p has returned, and every command it issued was answered.
Answered(p, op) ==
    /\ call[p].pc = "done"
    /\ call[p].op = op
    /\ call[p].err # "Unavailable"
    /\ ~call[p].lost

\* GetBackfill returned exactly the record w, a nil and an empty list of
\* ticket ids being the same list.
Returned(p, w) ==
    /\ call[p].err = "nil"
    /\ call[p].val.Backfill = w.backfill
    /\ Elems(call[p].val.TicketIds) = Elems(w.ticketIDs)

\* C2 (round trip): a GetBackfill of an id whose stored record was written by
\* CreateBackfill(B, T), B a Backfill and T any list (nil and empty included),
\* and neither updated nor deleted since, returns (B, T) without error.
C2_RoundTrip ==
    \A p \in Procs :
        (/\ Answered(p, "GetBackfill")
         /\ call[p].id \in DOMAIN written
         /\ written[call[p].id].op = "create"
         /\ written[call[p].id].backfill # NilBackfill)
        => Returned(p, written[call[p].id])

\* C2 witness: a Get returned a created record that carries a ticket id.
C2_Witness ==
    \E p \in Procs :
        /\ Answered(p, "GetBackfill")
        /\ call[p].id \in DOMAIN written
        /\ written[call[p].id].op = "create"
        /\ written[call[p].id].backfill = Backfill("a", 1)
        /\ call[p].err = "nil"
        /\ call[p].val.TicketIds = Slice(<<"t1">>)

\* C3 (update overwrite): a GetBackfill of an id whose last write is
\* UpdateBackfill(B', T') returns exactly (B', T'), whatever record the update
\* replaced; with T' nil the returned ticket list is empty.
C3_UpdateOverwrite ==
    \A p \in Procs :
        (/\ Answered(p, "GetBackfill")
         /\ call[p].id \in DOMAIN written
         /\ written[call[p].id].op = "update"
         /\ written[call[p].id].backfill # NilBackfill)
        => Returned(p, written[call[p].id])

\* C3 witness: an update with nil ticketIDs replaced a record that had ticket
\* ids, and the Get after it returned no ticket ids.
C3_Witness ==
    \E p \in Procs :
        /\ Answered(p, "GetBackfill")
        /\ call[p].id \in DOMAIN written
        /\ written[call[p].id].op = "update"
        /\ written[call[p].id].overTickets
        /\ written[call[p].id].ticketIDs = NilSlice
        /\ written[call[p].id].backfill = Backfill("a", 0)
        /\ call[p].err = "nil"
        /\ Elems(call[p].val.TicketIds) = <<>>

\* C4 (delete idempotence): a DeleteBackfill whose commands were answered
\* returns nil, whether or not the key existed; a GetBackfill of an id whose
\* last write is a delete returns NotFound.
C4_DeleteIdempotent ==
    \A p \in Procs :
        /\ Answered(p, "DeleteBackfill") => call[p].err = "nil"
        /\ (/\ Answered(p, "GetBackfill")
            /\ call[p].id \in DOMAIN written
            /\ written[call[p].id].op = "delete")
           => call[p].err = "NotFound"

\* C4 witness: a delete of a key that did not exist returned nil.
C4_Witness ==
    \E p \in Procs :
        /\ Answered(p, "DeleteBackfill")
        /\ call[p].res = 0
        /\ call[p].err = "nil"

\* C9 (empty payload is NotFound), as claimed: a GetBackfill of a key that is
\* absent or holds the zero-length value returns NotFound, and no GetBackfill
\* returns nil with a nil Backfill.
C9_EmptyIsNotFound ==
    \A p \in Procs :
        Answered(p, "GetBackfill") =>
            /\ (call[p].id \notin DOMAIN keyspace \/ keyspace[call[p].id] = <<>>)
                  => call[p].err = "NotFound"
            /\ call[p].err = "nil" => call[p].val.Backfill # NilBackfill

---------------------------------------------------------------------------
(* Properties of acknowledgement and expiry, under SpecExpiry *)

Range(s) == {s[i] : i \in 1..Len(s)}

\* GetExpiredBackfillIDs of p returned ids without error; call[p].currentTime
\* is the time it read as now.
Scanned(p) ==
    /\ call[p].pc = "done"
    /\ call[p].op = "GetExpiredBackfillIDs"
    /\ call[p].err = "nil"

\* C5 (ack then expire): a scan at now = t0 + ttl + 1 returns an id created
\* at t0 and not acknowledged since, and does not return it when its last
\* acknowledgement is an AcknowledgeBackfill at t0 + ttl/2; a CreateBackfill
\* that returned nil left the id's score at the time the call read.
C5_AckThenExpire ==
    \A p \in Procs :
        /\ Scanned(p) =>
              \A id \in DOMAIN acked :
                 (acked[id].created >= 0
                    /\ call[p].currentTime = acked[id].created + TTL + 1)
                 => /\ acked[id].op = "CreateBackfill" => id \in Range(call[p].val)
                    /\ (acked[id].op = "AcknowledgeBackfill"
                          /\ acked[id].t = acked[id].created + (TTL \div 2))
                       => id \notin Range(call[p].val)
        /\ (call[p].pc = "done" /\ call[p].op = "CreateBackfill" /\ call[p].err = "nil")
           => /\ call[p].id \in DOMAIN backfillLastAckTime
              /\ backfillLastAckTime[call[p].id] = call[p].currentTime
              /\ backfillLastAckTime[call[p].id] <= clock

\* C5 witness: one scan at t0 + ttl + 1 returns "a", created at t0 and left
\* alone, and omits "b", created at the same t0 and acknowledged at t0 + ttl/2.
C5_Witness ==
    \E p \in Procs :
        /\ Scanned(p)
        /\ "a" \in DOMAIN acked /\ "b" \in DOMAIN acked
        /\ acked["a"].op = "CreateBackfill"
        /\ acked["b"].op = "AcknowledgeBackfill"
        /\ acked["b"].created = acked["a"].created
        /\ acked["b"].t = acked["b"].created + (TTL \div 2)
        /\ call[p].currentTime = acked["a"].created + TTL + 1
        /\ call[p].val = <<"a">>

\* C6 (expired range): a scan that read now returns, each once, exactly the
\* ids whose score s satisfies 0 <= s <= now - ttl, and none when now - ttl < 0.
C6_ExpiredRange ==
    \A p \in Procs :
        Scanned(p) =>
            /\ Range(call[p].val) =
                  {id \in DOMAIN backfillLastAckTime :
                      /\ 0 <= backfillLastAckTime[id]
                      /\ backfillLastAckTime[id] <= call[p].currentTime - TTL}
            /\ Len(call[p].val) = Cardinality(Range(call[p].val))
            /\ call[p].currentTime - TTL < 0 => call[p].val = <<>>

\* C6 witness: the scan returned "a", acknowledged at exactly now - ttl, and
\* not "b", acknowledged at now - ttl + 1.
C6_Witness ==
    \E p \in Procs :
        /\ Scanned(p)
        /\ "a" \in DOMAIN backfillLastAckTime /\ "b" \in DOMAIN backfillLastAckTime
        /\ backfillLastAckTime["a"] = call[p].currentTime - TTL
        /\ backfillLastAckTime["b"] = call[p].currentTime - TTL + 1
        /\ call[p].val = <<"a">>

---------------------------------------------------------------------------
(* Properties of the index, under SpecIndex *)

\* p takes a step of DeleteBackfill.
DeleteStep(p) == call[p].op = "DeleteBackfill" /\ call'[p] # call[p]

\* The deferred close of a DeindexBackfill(id) runs.
DeindexStep(id) ==
    \E p \in Procs :
        /\ call[p].op = "DeindexBackfill" /\ call[p].id = id
        /\ call[p].pc = "close" /\ call'[p].pc = "done"

\* GetBackfill of p reads the key and returns, its GET answered.
GetStep(p) ==
    /\ call[p].op = "GetBackfill"
    /\ call[p].pc = "GET" /\ call'[p].pc = "done"
    /\ ~call'[p].lost

\* C7 (index independence): no step of DeleteBackfill changes allBackfills;
\* an entry of allBackfills goes away only by a DeindexBackfill of its id; and
\* a GetBackfill of an id whose record was deleted returns NotFound, whether
\* or not the id is indexed.
C7_IndexIndependent ==
    [][/\ \A p \in Procs : DeleteStep(p) => allBackfills' = allBackfills
       /\ \A id \in DOMAIN allBackfills :
             id \notin DOMAIN allBackfills' => DeindexStep(id)
       /\ \A p \in Procs :
             (GetStep(p) /\ call[p].id \in DOMAIN written
                /\ written[call[p].id].op = "delete")
             => call'[p].err = "NotFound"]_vars

\* C7 witness: after Index(B) and Delete(B.id), GetBackfill(B.id) has returned
\* NotFound while allBackfills still maps B.id to B.generation.
C7_Witness ==
    \E p \in Procs :
        /\ Answered(p, "GetBackfill")
        /\ call[p].id = "a"
        /\ call[p].err = "NotFound"
        /\ "a" \in DOMAIN written
        /\ written["a"].op = "delete"
        /\ "a" \in DOMAIN indexed
        /\ indexed["a"] = <<10 + MaxGen>>
        /\ "a" \in DOMAIN allBackfills
        /\ ~AtoiErr(allBackfills["a"])
        /\ Atoi(allBackfills["a"]) = 10 + MaxGen

\* C8 (index/deindex effect), as claimed: a GetIndexedBackfills that returns
\* nil maps every id whose last IndexBackfill(B) returned nil to
\* B.generation, and holds no id whose last call was a DeindexBackfill that
\* returned nil.
C8_IndexEffect ==
    \A p \in Procs :
        (call[p].pc = "done" /\ call[p].op = "GetIndexedBackfills" /\ call[p].err = "nil")
        => \A id \in DOMAIN indexed :
              IF indexed[id] = <<>>
              THEN id \notin DOMAIN call[p].val
              ELSE id \in DOMAIN call[p].val /\ call[p].val[id] = indexed[id][1]

\* C10 (error propagation), as claimed: a call one of whose commands Redis
\* did not apply returns Internal.
C10_ErrorPropagation ==
    \A p \in Procs :
        (call[p].pc = "done" /\ call[p].lost) => call[p].err = "Internal"

---------------------------------------------------------------------------
(* Properties of connections and of each operation's footprint, under SpecStore *)

\* C11 (Unavailable): a call comes to report Unavailable only in the step it
\* is made in; that step ends the call, and leaves the keyspace,
\* backfillLastAckTime, allBackfills and the number of connections in use unchanged.
C11_Unavailable ==
    [][\A p \in Procs :
          (call'[p].err = "Unavailable" /\ call[p].err # "Unavailable")
          => /\ call[p].pc = "idle"
             /\ call'[p].pc = "done"
             /\ store' = store
             /\ poolActive' = poolActive]_vars

\* C11 witness: DeleteBackfill("a") returned Unavailable while "a" has a
\* record, a score and an index entry.
C11_Witness ==
    \E p \in Procs :
        /\ call[p].pc = "done"
        /\ call[p].op = "DeleteBackfill"
        /\ call[p].id = "a"
        /\ call[p].err = "Unavailable"
        /\ "a" \in DOMAIN keyspace
        /\ "a" \in DOMAIN backfillLastAckTime
        /\ "a" \in DOMAIN allBackfills

\* The calls that hold a connection: made, and not yet returned.
InFlight == {p \in Procs : call[p].pc \notin {"idle", "done"}}

C13_DeleteRemovesAck ==
    [][/\ \A p \in Procs :
             LET c == call[p]
             IN  /\ (c.op = "DeleteBackfill" /\ c.pc = "DEL" /\ call'[p] # c)
                    => /\ backfillLastAckTime' = backfillLastAckTime
                       /\ \/ /\ call'[p].pc = "ZREM"
                             /\ c.id \notin DOMAIN keyspace'
                          \/ /\ call'[p].pc = "done"
                             /\ call'[p].err = "Internal"
                             /\ keyspace' = keyspace
                 /\ (c.op = "DeleteBackfill" /\ c.pc # "done"
                       /\ call'[p].pc = "done" /\ call'[p].err = "nil")
                    => /\ c.pc = "ZREM"
                       /\ c.id \notin DOMAIN keyspace'
                       /\ c.id \notin DOMAIN backfillLastAckTime'
                 /\ (c.op = "GetExpiredBackfillIDs" /\ c.pc = "ZRANGEBYSCORE"
                       /\ call'[p].pc = "done" /\ call'[p].err = "nil")
                    => Range(call'[p].val) \subseteq DOMAIN backfillLastAckTime
       /\ \A id \in DOMAIN backfillLastAckTime \ DOMAIN backfillLastAckTime' :
             /\ id \notin DOMAIN keyspace
             /\ \E p \in Procs :
                   /\ call[p].op = "DeleteBackfill" /\ call[p].pc = "ZREM"
                   /\ call[p].id = id
       /\ \A id \in DOMAIN backfillLastAckTime' \ DOMAIN backfillLastAckTime :
             \E p \in Procs :
                 /\ call[p].op \in {"CreateBackfill", "AcknowledgeBackfill"}
                 /\ call[p].pc = "ZADD"
                 /\ call[p].id = id]_vars

\* C13 witness: after a DeleteBackfill("a") that found the key, a scan late
\* enough to return an id scored at time 0 has returned nothing.
C13_Witness ==
    \E p \in Procs :
        /\ Scanned(p)
        /\ call[p].currentTime >= TTL
        /\ call[p].val = <<>>
        /\ "a" \in DOMAIN written
        /\ written["a"].op = "delete"
        /\ "a" \notin DOMAIN backfillLastAckTime

C17_UpdateBlind ==
    [][\A p \in Procs :
          LET c == call[p]
          IN  /\ (call'[p].op = "UpdateBackfill" /\ call'[p] # c /\ c.pc # "SET")
                 => store' = store
              /\ (c.op = "UpdateBackfill" /\ c.pc = "SET" /\ call'[p] # c)
                 => /\ backfillLastAckTime' = backfillLastAckTime
                    /\ allBackfills' = allBackfills
                    /\ \A k \in (DOMAIN keyspace \cup DOMAIN keyspace') \ {c.id} :
                          /\ k \in DOMAIN keyspace /\ k \in DOMAIN keyspace'
                          /\ keyspace'[k] = keyspace[k]
                    /\ call'[p].pc = "done"
                    /\ IF call'[p].lost
                          THEN call'[p].err = "Internal" /\ keyspace' = keyspace
                          ELSE /\ call'[p].err = "nil"
                               /\ c.id \in DOMAIN keyspace'
                               /\ keyspace'[c.id] = Marshal(c.backfill, c.ticketIDs)]_vars

\* C17 witness: UpdateBackfill of "a" returned nil when "a" had no score
\* (never created, or deleted); "a" is stored, still has no score, and the
\* record of "b" and the index entry of "a" are there.
C17_Witness ==
    \E p \in Procs :
        /\ call[p].pc = "done"
        /\ call[p].op = "UpdateBackfill"
        /\ call[p].id = "a"
        /\ call[p].err = "nil"
        /\ "a" \in DOMAIN keyspace
        /\ "a" \notin DOMAIN backfillLastAckTime
        /\ "b" \in DOMAIN keyspace
        /\ "a" \in DOMAIN allBackfills

\* C18 (a losing create changes nothing): the SETNX of a CreateBackfill
\* whose key exists, when answered, ends the call with AlreadyExists; a step
\* that returns AlreadyExists leaves the keyspace, backfillLastAckTime and
\* allBackfills as they were.
C18_LosingCreate ==
    [][\A p \in Procs :
          LET c == call[p]
          IN  (c.op = "CreateBackfill" /\ c.pc = "SETNX" /\ call'[p] # c)
              => /\ (c.id \in DOMAIN keyspace)
                    => /\ call'[p].pc = "done"
                       /\ call'[p].err = IF call'[p].lost THEN "Internal"
                                         ELSE "AlreadyExists"
                       /\ store' = store
                 /\ call'[p].err = "AlreadyExists"
                    => c.id \in DOMAIN keyspace /\ store' = store]_vars

\* C18 witness: CreateBackfill of "a" returned AlreadyExists at a time later
\* than the score of "a", which is indexed and still holds the record
\* written before.
C18_Witness ==
    \E p \in Procs :
        /\ call[p].pc = "done"
        /\ call[p].op = "CreateBackfill"
        /\ call[p].id = "a"
        /\ call[p].err = "AlreadyExists"
        /\ "a" \in DOMAIN keyspace
        /\ Unmarshal(keyspace["a"]).Backfill = written["a"].backfill
        /\ "a" \in DOMAIN backfillLastAckTime
        /\ backfillLastAckTime["a"] < clock
        /\ "a" \in DOMAIN allBackfills

\* C19 (acknowledge does not check existence): an AcknowledgeBackfill that
\* got a connection goes on to read the clock whether or not the id has a
\* record; no step of it changes the keyspace or allBackfills; its ZADD, when
\* answered, returns nil and leaves the id scored with the time it read.
C19_AckNoExistenceCheck ==
    [][\A p \in Procs :
          LET c == call[p]
          IN  /\ (call'[p].op = "AcknowledgeBackfill" /\ c.pc = "idle")
                 => /\ store' = store
                    /\ call'[p].err # "Unavailable" => call'[p].pc = "now"
              /\ (c.op = "AcknowledgeBackfill" /\ c.pc = "now" /\ call'[p] # c)
                 => /\ store' = store
                    /\ call'[p].pc = "ZADD"
                    /\ call'[p].currentTime = clock
              /\ (c.op = "AcknowledgeBackfill" /\ c.pc = "ZADD" /\ call'[p] # c)
                 => /\ keyspace' = keyspace
                    /\ allBackfills' = allBackfills
                    /\ call'[p].pc = "done"
                    /\ IF call'[p].lost
                          THEN /\ call'[p].err = "Internal"
                               /\ backfillLastAckTime' = backfillLastAckTime
                          ELSE /\ call'[p].err = "nil"
                               /\ c.id \in DOMAIN backfillLastAckTime'
                               /\ backfillLastAckTime'[c.id] = c.currentTime]_vars

\* C19 witness: a scan has returned "a", which never had a record and was
\* acknowledged; a GetBackfill of "a" would return NotFound.
C19_Witness ==
    \E p \in Procs :
        /\ Scanned(p)
        /\ "a" \in Range(call[p].val)
        /\ "a" \notin DOMAIN written
        /\ "a" \notin DOMAIN keyspace
        /\ GetResult(GET(keyspace, "a")).err = "NotFound"
        /\ acked["a"].op = "AcknowledgeBackfill"

\* C20 (get has no side effects): no step of GetBackfill changes the
\* keyspace, backfillLastAckTime or allBackfills; and a scan that returns nil
\* returns every id whose last acknowledgement read a time t <= now - ttl,
\* whatever reads came after it.
C20_GetNoSideEffects ==
    [][\A p \in Procs :
          LET c == call[p]
          IN  /\ ((c.op = "GetBackfill" \/ call'[p].op = "GetBackfill") /\ call'[p] # c)
                 => store' = store
              /\ (c.op = "GetExpiredBackfillIDs" /\ c.pc = "ZRANGEBYSCORE"
                    /\ call'[p].pc = "done" /\ call'[p].err = "nil")
                 => \A id \in DOMAIN acked :
                       acked[id].t + TTL <= c.currentTime
                       => id \in Range(call'[p].val)]_vars

\* C20 witness: GetBackfill("a") returned the record at a time when "a", its
\* score still the time of its last acknowledgement, is already expired.
C20_Witness ==
    \E p \in Procs :
        /\ Answered(p, "GetBackfill")
        /\ call[p].id = "a"
        /\ call[p].err = "nil"
        /\ "a" \in DOMAIN acked
        /\ backfillLastAckTime["a"] = acked["a"].t
        /\ acked["a"].t + TTL <= clock
        /\ ExpiredBackfillIds(backfillLastAckTime, clock) = <<"a">>

---------------------------------------------------------------------------
(* Properties of interleaved calls on one id, under SpecRace *)

\* C14 (most recent acknowledgement), as claimed: under any interleaving of
\* calls that read the clock and then upsert, the score of an id never
\* decreases while the id stays in backfillLastAckTime.
C14_AckMonotonic ==
    [][\A id \in DOMAIN backfillLastAckTime \cap DOMAIN backfillLastAckTime' :
          backfillLastAckTime'[id] >= backfillLastAckTime[id]]_vars

\* C15 (ack/record consistency under interleaving), as claimed: when a
\* CreateBackfill and a DeleteBackfill of one id, and no AcknowledgeBackfill,
\* have been called and all have returned nil, the id has a score only if it
\* has a record.
C15_NoDanglingAck ==
    (/\ \A p \in Procs :
           /\ call[p].pc = "done"
           /\ call[p].err = "nil"
           /\ call[p].op \in {"CreateBackfill", "DeleteBackfill"}
     /\ \E p \in Procs : call[p].op = "CreateBackfill"
     /\ \E p \in Procs : call[p].op = "DeleteBackfill")
    => \A id \in DOMAIN backfillLastAckTime : id \in DOMAIN keyspace

=============================================================================
